---- MODULE Spec2Model ----
(***************************************************************************)
(* regex-friendly: the fluent composer (src/src/index.ts), a part of the   *)
(* transformation and validation registries it enumerates, and the card    *)
(* utility (validateLuhn).                                                 *)
(*                                                                         *)
(* A JavaScript string is a sequence of one-character strings.  A          *)
(* JavaScript value is a record [t, v]: t is "string", "array", "object"   *)
(* or "boolean"; an abrupt completion is [t |-> "throw", v |-> error name].*)
(* A call argument is a record [re, src, flags]: a RegExp object (re) with *)
(* its source and flags, or a string whose text is src.  RegExp arguments  *)
(* are fresh literals, lastIndex 0.                                        *)
(***************************************************************************)
EXTENDS Integers, Sequences, FiniteSets, TLC

VARIABLES input, value, calls, ret, card, luhn, frame

vars == <<input, value, calls, ret, card, luhn, frame>>

(***************************************************************************)
(* Bounds of the model.                                                    *)
(***************************************************************************)
MaxLen == 3
MaxCalls == 2
PairMaxLen == 1
PairMaxCalls == 2
MaxTail == 2
MaxNoise == 1
MaxText == 4

(***************************************************************************)
(* Characters and the character classes of the host regular expressions.  *)
(***************************************************************************)
DigitChars == {"0", "1", "2", "3", "4", "5", "6", "7", "8", "9"}

LowerChars ==
  {"a", "b", "c", "d", "e", "f", "g", "h", "i", "j", "k", "l", "m",
   "n", "o", "p", "q", "r", "s", "t", "u", "v", "w", "x", "y", "z"}

UpperChars ==
  {"A", "B", "C", "D", "E", "F", "G", "H", "I", "J", "K", "L", "M",
   "N", "O", "P", "Q", "R", "S", "T", "U", "V", "W", "X", "Y", "Z"}

SpaceChars == {" ", "\t"}

OtherChars == {"-", ",", "(", "[", "]", "_"}

\* characters beyond ASCII, each named by its code point: e with an acute
\* accent, and the combining acute accent
AccentChars == {"U+00E9", "U+0301"}

AllChars ==
  DigitChars \cup LowerChars \cup UpperChars \cup SpaceChars \cup OtherChars \cup AccentChars

AlnumChars == DigitChars \cup LowerChars \cup UpperChars

WordChars == AlnumChars \cup {"_"}

DigitValue(c) ==
  CASE c = "0" -> 0 [] c = "1" -> 1 [] c = "2" -> 2 [] c = "3" -> 3
    [] c = "4" -> 4 [] c = "5" -> 5 [] c = "6" -> 6 [] c = "7" -> 7
    [] c = "8" -> 8 [] c = "9" -> 9

(***************************************************************************)
(* JavaScript values.                                                      *)
(***************************************************************************)
Str(s) == [t |-> "string", v |-> s]
Arr(a) == [t |-> "array", v |-> a]
Obj(o) == [t |-> "object", v |-> o]
Bool(b) == [t |-> "boolean", v |-> b]
Throw(e) == [t |-> "throw", v |-> e]
Self == [t |-> "chain", v |-> "chain"]
Undefined == [t |-> "undefined", v |-> "undefined"]

IsThrow(x) == x.t = "throw"

RECURSIVE Join(_, _)
Join(a, sep) ==
  IF a = <<>> THEN <<>>
  ELSE IF Len(a) = 1 THEN a[1]
  ELSE a[1] \o sep \o Join(Tail(a), sep)

ObjectObject ==
  <<"[", "o", "b", "j", "e", "c", "t", " ", "O", "b", "j", "e", "c", "t", "]">>

\* ToString, as RegExp.prototype.exec and test apply it to their argument
JsToString(x) ==
  CASE x.t = "string" -> x.v
    [] x.t = "array" -> Join(x.v, <<",">>)
    [] x.t = "object" -> ObjectObject
    [] x.t = "undefined" -> <<"u", "n", "d", "e", "f", "i", "n", "e", "d">>

(***************************************************************************)
(* String.prototype helpers.                                               *)
(***************************************************************************)
RECURSIVE ReplaceRuns(_, _, _)
\* s.replace(/[cls]+/g, rep): every maximal run of cls characters becomes rep
ReplaceRuns(s, cls, rep) ==
  IF s = <<>> THEN <<>>
  ELSE IF s[1] \in cls
       THEN IF Len(s) > 1 /\ s[2] \in cls
            THEN ReplaceRuns(Tail(s), cls, rep)
            ELSE rep \o ReplaceRuns(Tail(s), cls, rep)
       ELSE <<s[1]>> \o ReplaceRuns(Tail(s), cls, rep)

RECURSIVE TrimStart(_)
TrimStart(s) ==
  IF s # <<>> /\ s[1] \in SpaceChars THEN TrimStart(Tail(s)) ELSE s

RECURSIVE TrimEnd(_)
TrimEnd(s) ==
  IF s # <<>> /\ s[Len(s)] \in SpaceChars
  THEN TrimEnd(SubSeq(s, 1, Len(s) - 1))
  ELSE s

Trim(s) == TrimEnd(TrimStart(s))

(***************************************************************************)
(* The host regular-expression engine, for the sources the model's         *)
(* arguments and the registry produce: one atom (a literal character, an   *)
(* escaped character, \d, \s or \w), an atom followed by +, a named group  *)
(* around an atom, S(.*?)E for atoms S and E, and \bA\b for an atom A.     *)
(* Any other source the model meets is an unterminated group: SyntaxError. *)
(***************************************************************************)
SpecialChars == {".", "*", "+", "?", "^", "$", "{", "}", "(", ")", "|", "[", "]", "\\"}

RECURSIVE EscapeRegExp(_)
\* text.replace(/[.*+?^${}()|[\]\\]/g, "\\$&")
EscapeRegExp(text) ==
  IF text = <<>> THEN <<>>
  ELSE (IF text[1] \in SpecialChars THEN <<"\\", text[1]>> ELSE <<text[1]>>)
         \o EscapeRegExp(Tail(text))

NoAtom == [ok |-> FALSE, cls |-> {}, next |-> 0]

AtomAt(src, i) ==
  IF i > Len(src) THEN NoAtom
  ELSE IF src[i] = "\\"
       THEN IF i + 1 > Len(src) THEN NoAtom
            ELSE CASE src[i + 1] = "d" -> [ok |-> TRUE, cls |-> DigitChars, next |-> i + 2]
                   [] src[i + 1] = "s" -> [ok |-> TRUE, cls |-> SpaceChars, next |-> i + 2]
                   [] src[i + 1] = "w" -> [ok |-> TRUE, cls |-> WordChars, next |-> i + 2]
                   [] src[i + 1] \in SpecialChars ->
                        [ok |-> TRUE, cls |-> {src[i + 1]}, next |-> i + 2]
                   [] OTHER -> NoAtom
       ELSE IF src[i] \in SpecialChars THEN NoAtom
            ELSE [ok |-> TRUE, cls |-> {src[i]}, next |-> i + 1]

LazyGroup == <<"(", ".", "*", "?", ")">>
WordBoundary == <<"\\", "b">>

Slice(s, from, to) == IF from > to \/ to > Len(s) THEN <<>> ELSE SubSeq(s, from, to)

Invalid == [ok |-> FALSE, shape |-> "none", cls |-> {}, cls2 |-> {}, plus |-> FALSE, grp |-> <<>>]

\* the pattern a source compiles to
Compile(src) ==
  LET n == Len(src)
      a == AtomAt(src, 1)
      w == AtomAt(src, 3)
      e == AtomAt(src, a.next + 5)
  IN  IF a.ok /\ a.next = n + 1
      THEN [Invalid EXCEPT !.ok = TRUE, !.shape = "atom", !.cls = a.cls]
      ELSE IF a.ok /\ a.next = n /\ src[n] = "+"
      THEN [Invalid EXCEPT !.ok = TRUE, !.shape = "atom", !.cls = a.cls, !.plus = TRUE]
      ELSE IF a.ok /\ Slice(src, a.next, a.next + 4) = LazyGroup /\ e.ok /\ e.next = n + 1
      THEN [Invalid EXCEPT !.ok = TRUE, !.shape = "between", !.cls = a.cls, !.cls2 = e.cls]
      ELSE IF Slice(src, 1, 3) = <<"(", "?", "<">> /\ n >= 7 /\ src[4] \in LowerChars
              /\ src[5] = ">" /\ AtomAt(src, 6).ok /\ AtomAt(src, 6).next = n /\ src[n] = ")"
      THEN [Invalid EXCEPT !.ok = TRUE, !.shape = "atom", !.cls = AtomAt(src, 6).cls,
                           !.grp = <<src[4]>>]
      ELSE IF Slice(src, 1, 2) = WordBoundary /\ w.ok /\ w.next = n - 1
              /\ Slice(src, n - 1, n) = WordBoundary
      THEN [Invalid EXCEPT !.ok = TRUE, !.shape = "word", !.cls = w.cls]
      ELSE Invalid

\* new RegExp(source, flags)
NewRegExp(source, flags) ==
  IF Compile(source).ok
  THEN [t |-> "regexp", v |-> [source |-> source, flags |-> flags]]
  ELSE Throw("SyntaxError")

IsGlobal(r) == r.v.flags = "g"

\* least index >= from whose character is in cls, or 0
FindFrom(s, cls, from) ==
  LET hits == {i \in from..Len(s) : s[i] \in cls}
  IN  IF hits = {} THEN 0 ELSE CHOOSE i \in hits : \A j \in hits : i <= j

\* last index of the run of cls characters that starts at i
RunEnd(s, cls, i) ==
  LET stops == {j \in i..Len(s) : j = Len(s) \/ s[j + 1] \notin cls}
  IN  CHOOSE j \in stops : \A k \in stops : j <= k

IsWordAt(s, i) == i >= 1 /\ i <= Len(s) /\ s[i] \in WordChars

NoMatch == [found |-> FALSE, index |-> 0, last |-> 0, cap |-> <<>>]

\* the first match of compiled pattern c in s at or after index from (1-based):
\* the match is s[index..last], cap is capture group 1
MatchFrom(c, s, from) ==
  LET i == FindFrom(s, c.cls, from)
  IN  CASE c.shape = "atom" ->
             IF i = 0 THEN NoMatch
             ELSE LET l == IF c.plus THEN RunEnd(s, c.cls, i) ELSE i
                  IN  [found |-> TRUE, index |-> i, last |-> l, cap |-> SubSeq(s, i, l)]
        [] c.shape = "between" ->
             LET j == IF i = 0 THEN 0 ELSE FindFrom(s, c.cls2, i + 1)
             IN  IF j = 0 THEN NoMatch
                 ELSE [found |-> TRUE, index |-> i, last |-> j,
                       cap |-> Slice(s, i + 1, j - 1)]
        [] c.shape = "word" ->
             LET hits == {k \in from..Len(s) :
                            /\ s[k] \in c.cls
                            /\ IsWordAt(s, k - 1) # IsWordAt(s, k)
                            /\ IsWordAt(s, k) # IsWordAt(s, k + 1)}
             IN  IF hits = {} THEN NoMatch
                 ELSE LET k == CHOOSE k \in hits : \A h \in hits : k <= h
                      IN  [found |-> TRUE, index |-> k, last |-> k, cap |-> <<s[k]>>]

RECURSIVE MatchesFrom(_, _, _)
\* every match, left to right, each search resuming after the previous match
MatchesFrom(c, s, from) ==
  LET m == MatchFrom(c, s, from)
  IN  IF m.found THEN <<m>> \o MatchesFrom(c, s, m.last + 1) ELSE <<>>

\* r.exec(s) of a regular expression whose lastIndex is 0
RegExpExec(r, s) == MatchFrom(Compile(r.v.source), s, 1)

\* r.test(s)
RegExpTest(r, s) == RegExpExec(r, s).found

RECURSIVE ReplaceMatches(_, _, _, _)
ReplaceMatches(s, ms, rep, from) ==
  IF ms = <<>> THEN Slice(s, from, Len(s))
  ELSE Slice(s, from, ms[1].index - 1) \o rep
         \o ReplaceMatches(s, Tail(ms), rep, ms[1].last + 1)

\* s.replace(r, rep) for a replacement text without $ patterns
StringReplace(s, r, rep) ==
  LET all == MatchesFrom(Compile(r.v.source), s, 1)
      ms == IF IsGlobal(r) \/ all = <<>> THEN all ELSE <<all[1]>>
  IN  ReplaceMatches(s, ms, rep, 1)

RECURSIVE SplitPieces(_, _, _, _)
SplitPieces(s, ms, from, captures) ==
  IF ms = <<>> THEN <<Slice(s, from, Len(s))>>
  ELSE <<Slice(s, from, ms[1].index - 1)>>
         \o (IF captures THEN <<ms[1].cap>> ELSE <<>>)
         \o SplitPieces(s, Tail(ms), ms[1].last + 1, captures)

\* s.split(r): the pieces between the matches, with the captures of a
\* pattern that has a capture group
StringSplit(s, r) ==
  LET c == Compile(r.v.source)
  IN  SplitPieces(s, MatchesFrom(c, s, 1), 1, c.shape = "between" \/ c.grp # <<>>)

\* Array.from(s.matchAll(r), m => m[group]): matchAll throws on a non-global r
MatchAllGroup(s, r, group) ==
  IF ~IsGlobal(r) THEN Throw("TypeError")
  ELSE LET ms == MatchesFrom(Compile(r.v.source), s, 1)
       IN  Arr([k \in 1..Len(ms) |->
                  IF group = 0 THEN SubSeq(s, ms[k].index, ms[k].last) ELSE ms[k].cap])

(***************************************************************************)
(* src/src/transformations.ts: the registry entries the model carries.     *)
(* str is the cursor as the composer passes it: a method called on a       *)
(* cursor that is no string (str.replace, str.split, str.matchAll) is a    *)
(* TypeError, and exec and test convert a cursor that is no string.        *)
(***************************************************************************)
TypeError == Throw("TypeError")

NonDigitChars == AllChars \ DigitChars

toRegExp(pattern, flags) ==
  IF pattern.re
  THEN [t |-> "regexp", v |-> [source |-> pattern.src, flags |-> pattern.flags]]
  ELSE NewRegExp(pattern.src, flags)

noSpace(str) ==
  IF str.t # "string" THEN TypeError
  ELSE Str(ReplaceRuns(str.v, SpaceChars, <<>>))

RECURSIVE ReplacePairs(_, _, _)
\* s.replace(/[cls][cls]/g, rep): every two cls characters in a row become rep
ReplacePairs(s, cls, rep) ==
  IF s = <<>> THEN <<>>
  ELSE IF Len(s) > 1 /\ s[1] \in cls /\ s[2] \in cls
       THEN rep \o ReplacePairs(SubSeq(s, 3, Len(s)), cls, rep)
       ELSE <<s[1]>> \o ReplacePairs(Tail(s), cls, rep)

\* the collapsing of two spaces at a time, the ends left as they are
collapseSpacesPairs(str) ==
  IF str.t # "string" THEN TypeError
  ELSE Str(ReplacePairs(str.v, SpaceChars, <<" ">>))

collapseSpaces(str) ==
  IF str.t # "string" THEN TypeError
  ELSE Str(Trim(ReplaceRuns(str.v, SpaceChars, <<" ">>)))

onlyNumbers(str) ==
  IF str.t # "string" THEN TypeError
  ELSE Str(ReplaceRuns(str.v, NonDigitChars, <<>>))

replaceAll(str, pattern, replacement) ==
  LET r == toRegExp(pattern, IF pattern.re THEN pattern.flags ELSE "g")
  IN  IF IsThrow(r) THEN r
      ELSE IF str.t # "string" THEN TypeError
      ELSE Str(StringReplace(str.v, r, replacement.src))

extractFirst(str, pattern) ==
  LET r == toRegExp(pattern, IF pattern.re THEN pattern.flags ELSE "")
  IN  IF IsThrow(r) THEN r
      ELSE LET m == RegExpExec(r, JsToString(str))
           IN  Str(IF m.found THEN SubSeq(JsToString(str), m.index, m.last) ELSE <<>>)

extractAll(str, pattern) ==
  LET r == toRegExp(pattern, IF pattern.re THEN pattern.flags ELSE "g")
  IN  IF IsThrow(r) THEN r
      ELSE IF str.t # "string" THEN TypeError
      ELSE MatchAllGroup(str.v, r, 0)

extractGroups(str, pattern) ==
  LET r == toRegExp(pattern, "")
  IN  IF IsThrow(r) THEN r
      ELSE LET m == RegExpExec(r, JsToString(str))
               g == Compile(r.v.source).grp
           IN  Obj(IF m.found /\ g # <<>> THEN <<<<g, m.cap>>>> ELSE <<>>)

splitBy(str, pattern) ==
  LET r == toRegExp(pattern, "g")
  IN  IF IsThrow(r) THEN r
      ELSE IF str.t # "string" THEN TypeError
      ELSE Arr(StringSplit(str.v, r))

\* the source of `${s}(.*?)${e}`
BetweenSource(start, end) ==
  (IF start.re THEN start.src ELSE EscapeRegExp(start.src))
    \o LazyGroup
    \o (IF end.re THEN end.src ELSE EscapeRegExp(end.src))

between(str, start, end) ==
  LET re == NewRegExp(BetweenSource(start, end), "")
  IN  IF IsThrow(re) THEN re
      ELSE LET m == RegExpExec(re, JsToString(str))
           IN  Str(IF m.found THEN m.cap ELSE <<>>)

betweenAll(str, start, end) ==
  LET re == NewRegExp(BetweenSource(start, end), "g")
  IN  IF IsThrow(re) THEN re
      ELSE IF str.t # "string" THEN TypeError
      ELSE MatchAllGroup(str.v, re, 1)

\* s.replace(/[\u0300-\u036f]/g, ""): the combining marks are removed
RemoveCombining(s) == SelectSeq(s, LAMBDA ch : ch # "U+0301")

\* s.replace(/[^keep]+/g, rep): every maximal run of characters outside
\* keep becomes rep
RECURSIVE ReplaceRunsOutside(_, _, _)
ReplaceRunsOutside(s, keep, rep) ==
  IF s = <<>> THEN <<>>
  ELSE IF s[1] \notin keep
       THEN IF Len(s) > 1 /\ s[2] \notin keep
            THEN ReplaceRunsOutside(Tail(s), keep, rep)
            ELSE rep \o ReplaceRunsOutside(Tail(s), keep, rep)
       ELSE <<s[1]>> \o ReplaceRunsOutside(Tail(s), keep, rep)

LowerLetters ==
  <<"a", "b", "c", "d", "e", "f", "g", "h", "i", "j", "k", "l", "m",
    "n", "o", "p", "q", "r", "s", "t", "u", "v", "w", "x", "y", "z">>

UpperLetters ==
  <<"A", "B", "C", "D", "E", "F", "G", "H", "I", "J", "K", "L", "M",
    "N", "O", "P", "Q", "R", "S", "T", "U", "V", "W", "X", "Y", "Z">>

\* the place of ch in letters, 0 when it is not among them
LetterIndex(letters, ch) ==
  LET at == {i \in 1..Len(letters) : letters[i] = ch}
  IN  IF at = {} THEN 0 ELSE CHOOSE i \in at : TRUE

\* ch.toLowerCase() and ch.toUpperCase() of one character of the model
LowerOf(ch) ==
  IF LetterIndex(UpperLetters, ch) = 0 THEN ch
  ELSE LowerLetters[LetterIndex(UpperLetters, ch)]

UpperOf(ch) ==
  IF LetterIndex(LowerLetters, ch) = 0 THEN ch
  ELSE UpperLetters[LetterIndex(LowerLetters, ch)]

\* s.toLowerCase()
ToLowerCase(s) == [i \in 1..Len(s) |-> LowerOf(s[i])]

RECURSIVE NormalizeNFKD(_)
\* s.normalize("NFKD"): an accented letter becomes the letter and its
\* combining accent
NormalizeNFKD(s) ==
  IF s = <<>> THEN <<>>
  ELSE (IF s[1] = "U+00E9" THEN <<"e", "U+0301">> ELSE <<s[1]>>)
         \o NormalizeNFKD(Tail(s))

RECURSIVE TrimHyphens(_)
\* s.replace(/(?:^-+|-+$)/g, ""): the hyphens at either end are removed
TrimHyphens(s) ==
  IF s # <<>> /\ s[1] = "-" THEN TrimHyphens(Tail(s))
  ELSE IF s # <<>> /\ s[Len(s)] = "-" THEN TrimHyphens(SubSeq(s, 1, Len(s) - 1))
  ELSE s

\* the slug without the trimming of the hyphens at its ends
toSlugUntrimmed(str) ==
  IF str.t # "string" THEN TypeError
  ELSE Str(ReplaceRunsOutside(
             ToLowerCase(RemoveCombining(NormalizeNFKD(str.v))),
             LowerChars \cup DigitChars, <<"-">>))

toSlug(str) ==
  IF str.t # "string" THEN TypeError
  ELSE Str(TrimHyphens(
             ReplaceRunsOutside(
               ToLowerCase(RemoveCombining(NormalizeNFKD(str.v))),
               LowerChars \cup DigitChars, <<"-">>)))

RECURSIVE UpperAfterHyphen(_)
\* s.replace(/-([a-z0-9])/g, (_, c) => c.toUpperCase())
UpperAfterHyphen(s) ==
  IF s = <<>> THEN <<>>
  ELSE IF s[1] = "-" /\ Len(s) > 1 /\ s[2] \in LowerChars \cup DigitChars
       THEN <<UpperOf(s[2])>> \o UpperAfterHyphen(SubSeq(s, 3, Len(s)))
       ELSE <<s[1]>> \o UpperAfterHyphen(Tail(s))

toCamelCase(str) ==
  LET slug == toSlug(str)
  IN  IF IsThrow(slug) THEN slug ELSE Str(UpperAfterHyphen(slug.v))

\* the camel-case text returned as it is
toPascalCaseSame(str) == toCamelCase(str)

\* camel.charAt(0).toUpperCase() + camel.slice(1)
toPascalCase(str) ==
  LET camel == toCamelCase(str)
  IN  IF IsThrow(camel) THEN camel
      ELSE Str((IF camel.v = <<>> THEN <<>> ELSE <<UpperOf(camel.v[1])>>)
                 \o (IF camel.v = <<>> THEN <<>> ELSE Tail(camel.v)))

\* r.exec(s) of a regular expression whose lastIndex is li: the match and
\* the lastIndex the call leaves. Only a global expression starts at its
\* lastIndex and moves it, to the end of the match or back to 0
RegExpExecAt(r, s, li) ==
  LET m == MatchFrom(Compile(r.v.source), s, IF IsGlobal(r) THEN li + 1 ELSE 1)
  IN  [m |-> m,
       lastIndex |-> IF ~IsGlobal(r) THEN li ELSE IF m.found THEN m.last ELSE 0]

\* str.slice(0, lastIndex) + str.slice(lastIndex).replace(r, replacement)
ReplaceFromIndex(s, r, replacement, lastIndex) ==
  Slice(s, 1, lastIndex) \o StringReplace(Slice(s, lastIndex + 1, Len(s)), r, replacement)

RedactedLabel == <<"[", "R", "E", "D", "A", "C", "T", "E", "D", "]">>

redact(str, pattern, label) ==
  LET r == toRegExp(pattern, "g")
  IN  IF IsThrow(r) THEN r
      ELSE IF str.t # "string" THEN TypeError
      ELSE Str(StringReplace(str.v, r, IF label = Undefined THEN RedactedLabel ELSE label.v))

\* Object.keys(transformations), in source order, for the entries modelled
TransformationKeys ==
  <<"noSpace", "collapseSpaces", "onlyNumbers", "replaceAll", "extractFirst",
    "extractAll", "extractGroups", "splitBy", "between", "betweenAll">>

\* transformations[key](str, ...args)
Transformations(key, str, args) ==
  CASE key = "noSpace" -> noSpace(str)
    [] key = "collapseSpaces" -> collapseSpaces(str)
    [] key = "onlyNumbers" -> onlyNumbers(str)
    [] key = "replaceAll" -> replaceAll(str, args[1], args[2])
    [] key = "extractFirst" -> extractFirst(str, args[1])
    [] key = "extractAll" -> extractAll(str, args[1])
    [] key = "extractGroups" -> extractGroups(str, args[1])
    [] key = "splitBy" -> splitBy(str, args[1])
    [] key = "between" -> between(str, args[1], args[2])
    [] key = "betweenAll" -> betweenAll(str, args[1], args[2])

(***************************************************************************)
(* The validations registry entries the model carries.                     *)
(***************************************************************************)
isAlphanumeric(str) ==
  LET s == JsToString(str)
  IN  Bool(s # <<>> /\ \A i \in 1..Len(s) : s[i] \in AlnumChars)

hasDigit(str) ==
  LET s == JsToString(str)
  IN  Bool(\E i \in 1..Len(s) : s[i] \in DigitChars)

hasWordBoundary(str, word) ==
  LET r == NewRegExp(WordBoundary \o word.src \o WordBoundary, "")
  IN  IF IsThrow(r) THEN r ELSE Bool(RegExpTest(r, JsToString(str)))

\* s without its white space
RemoveSpaces(s) == SelectSeq(s, LAMBDA ch : ch \notin SpaceChars)

\* JSON.parse(s) for a text of digits, letters, spaces, tabs and hyphens: the
\* only JSON text such characters write is an integer, with a minus sign or
\* none and no leading zero, between JSON white space; any other text is a
\* SyntaxError
JsonParse(s) ==
  LET body == Trim(s)
      digits == IF body # <<>> /\ body[1] = "-" THEN Tail(body) ELSE body
  IN  IF /\ digits # <<>>
         /\ \A i \in 1..Len(digits) : digits[i] \in DigitChars
         /\ (digits[1] # "0" \/ Len(digits) = 1)
      THEN [t |-> "number", v |-> body]
      ELSE Throw("SyntaxError")

\* the try block without its catch
isJsonUncaught(str) ==
  LET parsed == JsonParse(JsToString(str))
  IN  IF IsThrow(parsed) THEN parsed ELSE Bool(TRUE)

\* try { JSON.parse(str); return true; } catch { return false; }
isJson(str) ==
  LET parsed == JsonParse(JsToString(str))
  IN  IF IsThrow(parsed) THEN Bool(FALSE) ELSE Bool(TRUE)

\* the base64 alphabet: A-Z, a-z, 0-9, + and /, the value of a character its
\* place less one
Base64Alphabet ==
  UpperLetters \o LowerLetters
    \o <<"0", "1", "2", "3", "4", "5", "6", "7", "8", "9", "+", "/">>

Base64Index(ch) == LetterIndex(Base64Alphabet, ch) - 1

Base64Char(i) == Base64Alphabet[i + 1]

RECURSIVE DecodeBase64(_)
\* the bytes that base64 characters stand for: three for every four
\* characters, two for a last three, one for a last two, the bits left over
\* dropped
DecodeBase64(data) ==
  LET v(i) == Base64Index(data[i])
  IN  IF Len(data) >= 4
      THEN LET n == v(1) * 262144 + v(2) * 4096 + v(3) * 64 + v(4)
           IN  <<n \div 65536, (n \div 256) % 256, n % 256>>
                 \o DecodeBase64(SubSeq(data, 5, Len(data)))
      ELSE IF Len(data) = 3
      THEN LET n == (v(1) * 4096 + v(2) * 64 + v(3)) \div 4
           IN  <<n \div 256, n % 256>>
      ELSE IF Len(data) = 2
      THEN <<(v(1) * 64 + v(2)) \div 16>>
      ELSE <<>>

\* atob(s): white space is removed; a text whose length is 1 more than a
\* multiple of 4, or with a character outside the base64 alphabet, is an
\* InvalidCharacterError (the texts of the model hold no "=")
Atob(s) ==
  LET data == RemoveSpaces(s)
  IN  IF Len(data) % 4 = 1 \/ \E i \in 1..Len(data) : Base64Index(data[i]) < 0
      THEN Throw("InvalidCharacterError")
      ELSE [t |-> "bytes", v |-> DecodeBase64(data)]

RECURSIVE Btoa(_)
\* btoa(bytes): four characters for every three bytes, the last one or two
\* bytes padded with "="
Btoa(bytes) ==
  IF Len(bytes) >= 3
  THEN LET n == bytes[1] * 65536 + bytes[2] * 256 + bytes[3]
       IN  <<Base64Char(n \div 262144), Base64Char((n \div 4096) % 64),
             Base64Char((n \div 64) % 64), Base64Char(n % 64)>>
             \o Btoa(SubSeq(bytes, 4, Len(bytes)))
  ELSE IF Len(bytes) = 2
  THEN LET n == (bytes[1] * 256 + bytes[2]) * 4
       IN  <<Base64Char(n \div 4096), Base64Char((n \div 64) % 64), Base64Char(n % 64), "=">>
  ELSE IF Len(bytes) = 1
  THEN LET n == bytes[1] * 16
       IN  <<Base64Char(n \div 64), Base64Char(n % 64), "=", "=">>
  ELSE <<>>

\* try { return btoa(atob(str)) === str; } catch { return false; }
isBase64(str) ==
  LET decoded == Atob(JsToString(str))
  IN  IF IsThrow(decoded) THEN Bool(FALSE)
      ELSE Bool(Btoa(decoded.v) = JsToString(str))

\* /^[a-z0-9]+(?:-[a-z0-9]+)*$/.test(str): runs of [a-z0-9], one hyphen
\* between two runs
isSlug(str) ==
  LET s == JsToString(str)
      runChars == LowerChars \cup DigitChars
  IN  Bool(/\ s # <<>>
           /\ \A i \in 1..Len(s) :
                \/ s[i] \in runChars
                \/ /\ s[i] = "-"
                   /\ i > 1 /\ s[i - 1] \in runChars
                   /\ i < Len(s) /\ s[i + 1] \in runChars)

ValidationKeys == <<"isAlphanumeric", "hasDigit", "hasWordBoundary">>

\* validations[key](str, ...args)
Validations(key, str, args) ==
  CASE key = "isAlphanumeric" -> isAlphanumeric(str)
    [] key = "hasDigit" -> hasDigit(str)
    [] key = "hasWordBoundary" -> hasWordBoundary(str, args[1])

(***************************************************************************)
(* src/src/index.ts: the composer.  input[c] is the argument of the        *)
(* regexify call that made composer c (Undefined when omitted), value[c]   *)
(* the variable its closures capture.  calls records every method call     *)
(* made so far and ret what the last one returned to the caller (Self: the *)
(* composer; a throw: the exception the caller sees).                      *)
(***************************************************************************)
\* let value = input, without the default
regexifyNoDefault(in) == in

\* let value = input || ""
regexify(in) ==
  IF in.t = "undefined" THEN Str(<<>>)
  ELSE IF in.v = <<>> THEN Str(<<>>)
  ELSE in

Composers == DOMAIN value

Call(c, kind, key, args, threw) ==
  [c |-> c, kind |-> kind, key |-> key, args |-> args, threw |-> threw]

\* the closure capturing the input by value: every call starts from the input
ChainTransformationByValue(c, key, args) ==
  LET r == Transformations(key, regexify(input[c]), args)
  IN  /\ value' = IF IsThrow(r) THEN value ELSE [value EXCEPT ![c] = r]
      /\ ret' = IF IsThrow(r) THEN r ELSE Self
      /\ calls' = Append(calls, Call(c, "transformation", key, args, IsThrow(r)))

\* the closure dropping the assignment of the cursor
ChainTransformationNoAssign(c, key, args) ==
  LET r == Transformations(key, value[c], args)
  IN  /\ value' = value
      /\ ret' = IF IsThrow(r) THEN r ELSE Self
      /\ calls' = Append(calls, Call(c, "transformation", key, args, IsThrow(r)))

\* one cursor variable shared by every composer
ChainTransformationShared(c, key, args) ==
  LET r == Transformations(key, value[c], args)
  IN  /\ value' = IF IsThrow(r) THEN value ELSE [d \in DOMAIN value |-> r]
      /\ ret' = IF IsThrow(r) THEN r ELSE Self
      /\ calls' = Append(calls, Call(c, "transformation", key, args, IsThrow(r)))

\* the closure catching the exception and assigning undefined
ChainTransformationSwallow(c, key, args) ==
  LET r == Transformations(key, value[c], args)
  IN  /\ value' = [value EXCEPT ![c] = IF IsThrow(r) THEN Undefined ELSE r]
      /\ ret' = Self
      /\ calls' = Append(calls, Call(c, "transformation", key, args, IsThrow(r)))

\* chain[key] = (...args) => { value = transformations[key](value, ...args); return chain; }
ChainTransformation(c, key, args) ==
  LET r == Transformations(key, value[c], args)
  IN  /\ value' = IF IsThrow(r) THEN value ELSE [value EXCEPT ![c] = r]
      /\ ret' = IF IsThrow(r) THEN r ELSE Self
      /\ calls' = Append(calls, Call(c, "transformation", key, args, IsThrow(r)))

\* the validation closure written like the transformation closure
ChainValidationAssign(c, key, args) ==
  LET r == Validations(key, value[c], args)
  IN  /\ value' = IF IsThrow(r) THEN value ELSE [value EXCEPT ![c] = r]
      /\ ret' = r
      /\ calls' = Append(calls, Call(c, "validation", key, args, IsThrow(r)))

\* chain[key] = (...args) => validations[key](value, ...args)
ChainValidation(c, key, args) ==
  LET r == Validations(key, value[c], args)
  IN  /\ value' = value
      /\ ret' = r
      /\ calls' = Append(calls, Call(c, "validation", key, args, IsThrow(r)))

\* result() handing the cursor over and starting again from the input
ChainResultConsume(c) ==
  /\ value' = [value EXCEPT ![c] = regexify(input[c])]
  /\ ret' = value[c]
  /\ calls' = Append(calls, Call(c, "result", "result", <<>>, FALSE))

\* chain.result = () => value
ChainResult(c) ==
  /\ value' = value
  /\ ret' = value[c]
  /\ calls' = Append(calls, Call(c, "result", "result", <<>>, FALSE))

(***************************************************************************)
(* The names of the four families and the two surfaces built from them.    *)
(***************************************************************************)
\* Object.keys(transformations)
TransformationNames ==
  <<"noSpace", "collapseSpaces", "trim", "trimLeft", "trimRight",
    "onlyNumbers", "removeNumbers", "onlyLetters", "removeLetters",
    "onlyAlphanumerics", "removeNonAlphanumerics", "noSpecialChars",
    "replaceAll", "replaceFirst", "replaceLast", "extractFirst",
    "extractAll", "extractGroups", "splitBy", "between", "betweenAll",
    "stripHtml", "squeezeSpaces", "maskTail", "redact", "padNumbers",
    "toSlug", "toSnakeCase", "toCamelCase", "toPascalCase", "custom">>

\* a validation registry with an entry named as a transformation is
ValidationNamesClash == <<"isAlphanumeric", "hasDigit", "between">>

\* Object.keys(validations)
ValidationNames ==
  <<"isEmail", "isUrl", "isHtmlTag", "isPhone", "isPostalCode",
    "isCreditCard", "isHexColor", "isIPv4", "isIPv6", "isUUIDv4",
    "isAlphanumeric", "isUsername", "isSlug", "isDateISO", "isTime24h",
    "isDateTimeISO", "isJson", "isBase64", "hasUppercase", "hasLowercase",
    "hasDigit", "hasSymbol", "isStrongPassword", "hasWordBoundary">>

\* Object.keys(advanced)
AdvancedNames ==
  <<"lookahead", "negativeLookahead", "lookbehind", "negativeLookbehind",
    "matchGroups", "startsWith", "endsWith", "nonCapturing", "namedGroup",
    "or", "anyOf", "noneOf", "repeat", "optional", "oneOrMore",
    "zeroOrMore", "word", "notWordBoundary", "build">>

\* Object.keys(rexFunctions)
CardFunctionNames ==
  <<"formatCardNumber", "validateCreditCard">>

Range(s) == {s[i] : i \in 1..Len(s)}

\* target[name] = ... for every name, in order: the family that wrote a
\* name last owns it
AssignAll(target, family, names) ==
  [n \in DOMAIN target \cup Range(names) |->
     IF n \in Range(names) THEN family ELSE target[n]]

NoProperty == [n \in {} |-> ""]

\* Object.assign(regexify, transformations, validations, advanced, rexFunctions)
StaticSurface ==
  AssignAll(
    AssignAll(
      AssignAll(
        AssignAll(NoProperty, "transformation", TransformationNames),
        "validation", ValidationNames),
      "advanced", AdvancedNames),
    "function", CardFunctionNames)

\* the chain object: a method for every transformation, then for every
\* validation, then result
ChainMethods ==
  AssignAll(
    AssignAll(
      AssignAll(NoProperty, "transformation", TransformationNames),
      "validation", ValidationNames),
    "result", <<"result">>)

(***************************************************************************)
(* The inputs and arguments the model draws.                               *)
(***************************************************************************)
ChainChars == {"a", "1", " "}

RECURSIVE StringsUpTo(_, _)
StringsUpTo(chars, n) ==
  IF n = 0 THEN {<<>>}
  ELSE LET shorter == StringsUpTo(chars, n - 1)
       IN  shorter \cup {Append(s, ch) : s \in shorter, ch \in chars}

StrArg(text) == [re |-> FALSE, src |-> text, flags |-> ""]
ReArg(source, flags) == [re |-> TRUE, src |-> source, flags |-> flags]

Method(key, args) == [key |-> key, args |-> args]

TransformationCalls ==
  { Method("noSpace", <<>>),
    Method("collapseSpaces", <<>>),
    Method("onlyNumbers", <<>>),
    Method("replaceAll", <<StrArg(<<"a">>), StrArg(<<"1", " ">>)>>),
    Method("replaceAll", <<StrArg(<<"(">>), StrArg(<<>>)>>),
    Method("extractFirst", <<StrArg(<<"\\", "d", "+">>)>>),
    Method("extractAll", <<StrArg(<<"\\", "d">>)>>),
    Method("extractAll", <<ReArg(<<"\\", "d">>, "")>>),
    Method("extractGroups", <<ReArg(<<"(", "?", "<", "g", ">", "\\", "d", ")">>, "")>>),
    Method("splitBy", <<StrArg(<<" ">>)>>),
    Method("between", <<StrArg(<<"a">>), StrArg(<<"1">>)>>),
    Method("betweenAll", <<StrArg(<<"a">>), StrArg(<<"1">>)>>) }

ValidationCalls ==
  { Method("isAlphanumeric", <<>>),
    Method("hasDigit", <<>>),
    Method("hasWordBoundary", <<StrArg(<<"a">>)>>),
    Method("hasWordBoundary", <<StrArg(<<"(">>)>>) }

PairTransformationCalls ==
  { Method("onlyNumbers", <<>>),
    Method("replaceAll", <<StrArg(<<"a">>), StrArg(<<"1", " ">>)>>),
    Method("extractAll", <<StrArg(<<"\\", "d">>)>>) }

PairValidationCalls == { Method("hasDigit", <<>>) }

Single == Cardinality(Composers) = 1

CallBudget == IF Single THEN MaxCalls ELSE PairMaxCalls

(***************************************************************************)
(* The caller: one method call of one composer per step.                   *)
(***************************************************************************)
CallTransformation ==
  /\ Composers # {}
  /\ Len(calls) < CallBudget
  /\ \E c \in Composers :
       \E m \in (IF Single THEN TransformationCalls ELSE PairTransformationCalls) :
         ChainTransformation(c, m.key, m.args)
  /\ UNCHANGED <<input, card, luhn, frame>>

CallValidation ==
  /\ Composers # {}
  /\ Len(calls) < CallBudget
  /\ \E c \in Composers :
       \E m \in (IF Single THEN ValidationCalls ELSE PairValidationCalls) :
         ChainValidation(c, m.key, m.args)
  /\ UNCHANGED <<input, card, luhn, frame>>

CallResult ==
  /\ Composers # {}
  /\ Len(calls) < CallBudget
  /\ \E c \in Composers : ChainResult(c)
  /\ UNCHANGED <<input, card, luhn, frame>>

Inputs == {Undefined} \cup {Str(s) : s \in StringsUpTo(ChainChars, MaxLen)}

PairInputs == {Undefined} \cup {Str(s) : s \in StringsUpTo(ChainChars, PairMaxLen)}

\* one composer: regexify(input)
Init ==
  /\ input \in [{1} -> Inputs]
  /\ value = [c \in {1} |-> regexify(input[c])]
  /\ calls = <<>>
  /\ ret = Undefined
  /\ card = <<>>
  /\ luhn = Undefined
  /\ frame = Undefined

\* two composers made by separate regexify calls
InitPair ==
  /\ input \in [{1, 2} -> PairInputs]
  /\ value = [c \in {1, 2} |-> regexify(input[c])]
  /\ calls = <<>>
  /\ ret = Undefined
  /\ card = <<>>
  /\ luhn = Undefined
  /\ frame = Undefined

Next == CallTransformation \/ CallValidation \/ CallResult

Spec == Init /\ [][Next]_vars

SpecPair == InitPair /\ [][Next]_vars

(***************************************************************************)
(* The composer's properties.                                              *)
(***************************************************************************)
\* the input a chain starts from: the string given, "" when none was given
OriginalInput(c) == IF input[c].t = "undefined" THEN Str(<<>>) ELSE input[c]

\* the transformation calls of composer c that returned, in call order
Returned(c) ==
  SelectSeq(calls, LAMBDA e : e.c = c /\ e.kind = "transformation" /\ ~e.threw)

RECURSIVE StaticCompose(_, _)
\* Tk(...T2(T1(s, args1), args2)..., argsk) of the static transformations
StaticCompose(s, ts) ==
  IF ts = <<>> \/ IsThrow(s) THEN s
  ELSE StaticCompose(Transformations(ts[1].key, s, ts[1].args), Tail(ts))

Reverse(s) == [i \in 1..Len(s) |-> s[Len(s) + 1 - i]]

Appended == Len(calls') = Len(calls) + 1
NewCall == calls'[Len(calls')]
LastCall == calls[Len(calls)]

\* C1: the cursor, and what result() returns, is the left-to-right
\* composition of the static transformations called so far on the input
ChainIsComposition ==
  /\ \A c \in Composers : value[c] = StaticCompose(OriginalInput(c), Returned(c))
  /\ (calls # <<>> /\ LastCall.kind = "result")
       => ret = StaticCompose(OriginalInput(LastCall.c), Returned(LastCall.c))

\* two transformations have run and their order mattered
ChainIsCompositionWitness ==
  /\ Len(calls) = 2
  /\ Len(Returned(1)) = 2
  /\ value[1] # OriginalInput(1)
  /\ value[1] # StaticCompose(OriginalInput(1), Reverse(Returned(1)))

\* C2: the cursor, and what result() returns, is always a string
CursorIsString ==
  /\ \A c \in Composers : value[c].t = "string"
  /\ (calls # <<>> /\ LastCall.kind = "result") => ret.t = "string"

\* C3: a predicate call leaves the cursor of every composer as it was
PredicateKeepsCursor ==
  [][(Appended /\ NewCall.kind = "validation") => value' = value]_vars

\* a predicate has answered true on a cursor a transformation had changed
PredicateKeepsCursorWitness ==
  /\ Len(calls) = 2
  /\ calls[1].kind = "transformation"
  /\ calls[2].kind = "validation"
  /\ value[1] # OriginalInput(1)
  /\ ret = Bool(TRUE)

\* C4: result() returns the cursor and leaves it unchanged, a second
\* result() returns the same, and the call after a result() computes from
\* the very value result() returned
ResultHasNoSideEffect ==
  [][/\ (Appended /\ NewCall.kind = "result")
          => (value' = value /\ ret' = value[NewCall.c])
     /\ (Appended /\ calls # <<>> /\ LastCall.kind = "result" /\ NewCall.c = LastCall.c)
          => CASE NewCall.kind = "result" -> ret' = ret
               [] NewCall.kind = "validation" ->
                    ret' = Validations(NewCall.key, ret, NewCall.args)
               [] NewCall.kind = "transformation" ->
                    LET r == Transformations(NewCall.key, ret, NewCall.args)
                    IN  IF IsThrow(r) THEN ret' = r ELSE value'[NewCall.c] = r]_vars

\* result() was called twice in a row on a non-empty cursor
ResultHasNoSideEffectWitness ==
  /\ Len(calls) = 2
  /\ calls[1].kind = "result"
  /\ calls[2].kind = "result"
  /\ ret = input[1]
  /\ ret.t = "string"
  /\ ret.v # <<>>

\* C5: the first call F(...args) on regexify(s) gives what the static call
\* F(s, ...args) gives: the cursor (and result()) for a transformation, the
\* boolean for a predicate, the same exception when the static call throws
ChainEqualsStatic ==
  \A c \in Composers :
    (input[c].t = "string" /\ calls # <<>> /\ calls[1].c = c) =>
      LET e == calls[1]
          static == IF e.kind = "validation"
                    THEN Validations(e.key, input[c], e.args)
                    ELSE Transformations(e.key, input[c], e.args)
      IN  /\ (Len(calls) = 1 /\ e.kind = "validation") => ret = static
          /\ (Len(calls) = 1 /\ e.kind = "transformation")
               => IF IsThrow(static) THEN ret = static ELSE value[c] = static
          /\ (Len(calls) = 2 /\ e.kind = "transformation" /\ ~IsThrow(static)
                /\ calls[2].kind = "result" /\ calls[2].c = c)
               => ret = static

\* a chain of one transformation has returned, through result(), a value
\* that is not its input
ChainEqualsStaticWitness ==
  /\ Len(calls) = 2
  /\ calls[1].kind = "transformation"
  /\ ~calls[1].threw
  /\ calls[2].kind = "result"
  /\ input[1].t = "string"
  /\ ret # input[1]

\* C6: while no transformation has returned, the cursor is "" for a
\* composer opened without input and s for one opened on s, and result()
\* returns it
OpenCursor ==
  \A c \in Composers :
    Returned(c) = <<>> =>
      /\ value[c] = (IF input[c].t = "undefined" THEN Str(<<>>) ELSE input[c])
      /\ (calls # <<>> /\ LastCall.kind = "result" /\ LastCall.c = c)
           => ret = (IF input[c].t = "undefined" THEN Str(<<>>) ELSE input[c])

\* result() has returned "" on a composer opened without input
OpenCursorWitness ==
  /\ input[1] = Undefined
  /\ calls # <<>>
  /\ LastCall.kind = "result"
  /\ ret = Str(<<>>)

\* C7: a call on one composer leaves the cursor of every other composer as
\* it was, and each cursor is the composition of its own composer's
\* transformations on its own input
ComposersIndependent ==
  /\ [][Appended => \A d \in Composers \ {NewCall.c} : value'[d] = value[d]]_vars
  /\ [](\A c \in Composers : value[c] = StaticCompose(OriginalInput(c), Returned(c)))

\* each of two composers has run a transformation of its own
ComposersIndependentWitness ==
  /\ Cardinality(Composers) = 2
  /\ Len(Returned(1)) = 1
  /\ Len(Returned(2)) = 1
  /\ value[1] # value[2]
  /\ value[1] # OriginalInput(1)
  /\ value[2] # OriginalInput(2)

\* C8: a transformation that throws hands its exception to the caller and
\* leaves the cursor as it was, and result() then returns the last value
\* that was computed
ThrowKeepsCursor ==
  [][/\ (Appended /\ NewCall.kind = "transformation"
           /\ IsThrow(Transformations(NewCall.key, value[NewCall.c], NewCall.args)))
          => /\ ret' = Transformations(NewCall.key, value[NewCall.c], NewCall.args)
             /\ value' = value
     /\ (Appended /\ calls # <<>> /\ LastCall.kind = "transformation" /\ LastCall.threw
           /\ NewCall.kind = "result" /\ NewCall.c = LastCall.c)
          => ret' = StaticCompose(OriginalInput(NewCall.c), Returned(NewCall.c))]_vars

\* a transformation has thrown on a cursor an earlier one had changed
ThrowKeepsCursorWitness ==
  /\ Len(calls) = 2
  /\ calls[1].kind = "transformation"
  /\ ~calls[1].threw
  /\ calls[2].kind = "transformation"
  /\ calls[2].threw
  /\ IsThrow(ret)
  /\ value[1] # OriginalInput(1)

(***************************************************************************)
(* The card utility: validateLuhn.                                         *)
(***************************************************************************)
\* s.replace(/[cls]/g, ""): every cls character is removed
RemoveChars(s, cls) == SelectSeq(s, LAMBDA ch : ch \notin cls)

\* /^\d+$/.test(s)
IsDigitString(s) == s # <<>> /\ \A i \in 1..Len(s) : s[i] \in DigitChars

RECURSIVE LuhnLoop(_, _, _, _)
\* for (let i = digits.length - 1; i >= 0; i--) { ... }: the sum at loop exit
LuhnLoop(digits, i, sum, isEven) ==
  IF i < 0 THEN sum
  ELSE LET digit == DigitValue(digits[i + 1])
           doubled == IF isEven THEN digit * 2 ELSE digit
           folded == IF isEven /\ doubled > 9 THEN doubled - 9 ELSE doubled
       IN  LuhnLoop(digits, i - 1, sum + folded, ~isEven)

RECURSIVE LuhnLoopUnfolded(_, _, _, _)
\* the loop without the fold: a doubled digit above 9 is added as it is
LuhnLoopUnfolded(digits, i, sum, isEven) ==
  IF i < 0 THEN sum
  ELSE LET digit == DigitValue(digits[i + 1])
           doubled == IF isEven THEN digit * 2 ELSE digit
       IN  LuhnLoopUnfolded(digits, i - 1, sum + doubled, ~isEven)

validateLuhnUnfolded(cardNumber) ==
  LET digits == RemoveChars(cardNumber, SpaceChars \cup {"-"})
  IN  IF ~IsDigitString(digits) THEN FALSE
      ELSE IF Len(digits) < 13 \/ Len(digits) > 19 THEN FALSE
      ELSE LuhnLoopUnfolded(digits, Len(digits) - 1, 0, FALSE) % 10 = 0

\* the loop starting with the flag on: the rightmost digit is doubled
validateLuhnFlagOn(cardNumber) ==
  LET digits == RemoveChars(cardNumber, SpaceChars \cup {"-"})
  IN  IF ~IsDigitString(digits) THEN FALSE
      ELSE IF Len(digits) < 13 \/ Len(digits) > 19 THEN FALSE
      ELSE LuhnLoop(digits, Len(digits) - 1, 0, TRUE) % 10 = 0

validateLuhn(cardNumber) ==
  LET digits == RemoveChars(cardNumber, SpaceChars \cup {"-"})
  IN  IF ~IsDigitString(digits) THEN FALSE
      ELSE IF Len(digits) < 13 \/ Len(digits) > 19 THEN FALSE
      ELSE LuhnLoop(digits, Len(digits) - 1, 0, FALSE) % 10 = 0

\* the card numbers the model draws: the first digits of a base number,
\* then up to MaxTail characters of any kind
CardChars == DigitChars \cup {" ", "-", "\t", "a"}

CardBases ==
  { <<"4", "1", "1", "1", "1", "1", "1", "1", "1", "1",
      "1", "1", "1", "1", "1", "1", "1", "1", "1">>,
    <<"3", "7", "8", "2", "8", "2", "2", "4", "6", "3",
      "1", "0", "0", "0", "5", "9", "8", "7", "6">> }

PrefixLengths == 10..18

CardInputs ==
  { SubSeq(b, 1, n) \o tail :
      b \in CardBases, n \in PrefixLengths, tail \in StringsUpTo(CardChars, MaxTail) }

\* one static call validateLuhn(card), card the number passed
InitLuhn ==
  /\ input = <<>>
  /\ value = <<>>
  /\ calls = <<>>
  /\ ret = Undefined
  /\ card \in CardInputs
  /\ luhn = Undefined
  /\ frame = Undefined

CallValidateLuhn ==
  /\ Composers = {}
  /\ luhn.t = "undefined"
  /\ luhn' = Bool(validateLuhn(card))
  /\ UNCHANGED <<input, value, calls, ret, card, frame>>

NextLuhn == CallValidateLuhn

SpecLuhn == InitLuhn /\ [][NextLuhn]_vars

(***************************************************************************)
(* The Luhn check's properties.                                            *)
(***************************************************************************)
\* the input without its space and hyphen characters
SpaceHyphenStripped(s) == SelectSeq(s, LAMBDA ch : ch # " " /\ ch # "-")

\* the digit at distance k from the right end counts as itself when k is
\* even, and doubled, less 9 when that exceeds 9, when k is odd
LuhnWeight(d, k) ==
  IF k % 2 = 0 THEN d
  ELSE IF 2 * d > 9 THEN 2 * d - 9 ELSE 2 * d

RECURSIVE ChecksumUpTo(_, _)
ChecksumUpTo(d, n) ==
  IF n = 0 THEN 0
  ELSE ChecksumUpTo(d, n - 1) + LuhnWeight(DigitValue(d[n]), Len(d) - n)

\* C9: on 13 to 19 digits (spaces and hyphens apart) validateLuhn is true
\* exactly when the right-to-left sum, every second digit doubled and
\* folded, the rightmost not, is divisible by 10
LuhnMatchesChecksum ==
  LET d == SpaceHyphenStripped(card)
  IN  (luhn.t = "boolean" /\ IsDigitString(d) /\ Len(d) >= 13 /\ Len(d) <= 19)
        => luhn.v = (ChecksumUpTo(d, Len(d)) % 10 = 0)

\* a number written with a hyphen has passed, one of its doubled digits
\* exceeding 9
LuhnMatchesChecksumWitness ==
  LET d == SpaceHyphenStripped(card)
  IN  /\ luhn = Bool(TRUE)
      /\ \E i \in 1..Len(card) : card[i] = "-"
      /\ IsDigitString(d)
      /\ \E i \in 1..Len(d) : (Len(d) - i) % 2 = 1 /\ DigitValue(d[i]) > 4

\* C10: validateLuhn is false whenever the input, spaces and hyphens apart,
\* holds a character that is no digit or is shorter than 13 or longer than 19
LuhnRejectsMalformed ==
  LET d == SpaceHyphenStripped(card)
  IN  (luhn.t = "boolean" /\ (~IsDigitString(d) \/ Len(d) < 13 \/ Len(d) > 19))
        => luhn = Bool(FALSE)

(***************************************************************************)
(* The card utility: the brand catalog and identifyCardType.               *)
(***************************************************************************)
\* the normalization removing the letters too
NormalizeLetters(cardNumber) ==
  RemoveChars(cardNumber, SpaceChars \cup {"-"} \cup LowerChars \cup UpperChars)

\* cardNumber.replace(/[\s-]/g, ""): the cleanNumber of the card functions
Normalize(cardNumber) == RemoveChars(cardNumber, SpaceChars \cup {"-"})

\* s starts with the characters of p
StartsWith(s, p) == Len(s) >= Len(p) /\ SubSeq(s, 1, Len(p)) = p

\* every character of s is a digit (\d{n} for the n characters of s)
AllDigits(s) == \A i \in 1..Len(s) : s[i] \in DigitChars

\* /^4\d{12}(?:\d{3})?$/
VisaPattern(s) ==
  /\ AllDigits(s)
  /\ StartsWith(s, <<"4">>)
  /\ Len(s) \in {13, 16}

\* the pattern ending with \d{10,12}: at most 18 digits
VervePatternShort(s) ==
  /\ AllDigits(s)
  /\ \/ StartsWith(s, <<"5", "0", "6", "0", "9", "9">>)
     \/ StartsWith(s, <<"5", "0", "6", "1">>)
     \/ StartsWith(s, <<"6", "5", "0">>)
  /\ Len(s) >= 16 /\ Len(s) <= 18

\* /^(506(099|1\d{2})|650\d{3})\d{10,13}$/
VervePattern(s) ==
  /\ AllDigits(s)
  /\ \/ StartsWith(s, <<"5", "0", "6", "0", "9", "9">>)
     \/ StartsWith(s, <<"5", "0", "6", "1">>)
     \/ StartsWith(s, <<"6", "5", "0">>)
  /\ Len(s) >= 16 /\ Len(s) <= 19

\* /^(?:5[1-5]\d{14}|2[2-7]\d{14})$/
MastercardPattern(s) ==
  /\ AllDigits(s)
  /\ Len(s) = 16
  /\ \/ s[1] = "5" /\ s[2] \in {"1", "2", "3", "4", "5"}
     \/ s[1] = "2" /\ s[2] \in {"2", "3", "4", "5", "6", "7"}

\* the pattern with \d{12,13}: 14 digits as well
AmexPatternLoose(s) ==
  /\ AllDigits(s)
  /\ Len(s) \in {14, 15}
  /\ s[1] = "3" /\ s[2] \in {"4", "7"}

\* /^3[47]\d{13}$/
AmexPattern(s) ==
  /\ AllDigits(s)
  /\ Len(s) = 15
  /\ s[1] = "3" /\ s[2] \in {"4", "7"}

\* /^6(?:011|5\d{2})\d{12}$/
DiscoverPattern(s) ==
  /\ AllDigits(s)
  /\ Len(s) = 16
  /\ \/ StartsWith(s, <<"6", "0", "1", "1">>)
     \/ StartsWith(s, <<"6", "5">>)

\* /^3(?:0[0-5]|[68]\d)\d{11}$/
DinersClubPattern(s) ==
  /\ AllDigits(s)
  /\ Len(s) = 14
  /\ s[1] = "3"
  /\ \/ s[2] = "0" /\ s[3] \in {"0", "1", "2", "3", "4", "5"}
     \/ s[2] \in {"6", "8"}

\* /^(?:2131|1800|35\d{3})\d{11}$/
JcbPattern(s) ==
  /\ AllDigits(s)
  /\ \/ Len(s) = 15 /\ (StartsWith(s, <<"2", "1", "3", "1">>) \/ StartsWith(s, <<"1", "8", "0", "0">>))
     \/ Len(s) = 16 /\ StartsWith(s, <<"3", "5">>)

\* the catalog in the order of its keys: the name and the lengths of a brand
CARD_TYPES ==
  << [name |-> "Visa", lengths |-> {13, 16, 19}],
     [name |-> "Verve", lengths |-> {16, 18, 19}],
     [name |-> "Mastercard", lengths |-> {16}],
     [name |-> "American Express", lengths |-> {15}],
     [name |-> "Discover", lengths |-> {16}],
     [name |-> "Diners Club", lengths |-> {14}],
     [name |-> "JCB", lengths |-> {16}] >>

\* card.pattern.test(s), for the brand of that name
PatternTest(name, s) ==
  CASE name = "Visa" -> VisaPattern(s)
    [] name = "Verve" -> VervePattern(s)
    [] name = "Mastercard" -> MastercardPattern(s)
    [] name = "American Express" -> AmexPattern(s)
    [] name = "Discover" -> DiscoverPattern(s)
    [] name = "Diners Club" -> DinersClubPattern(s)
    [] name = "JCB" -> JcbPattern(s)

RECURSIVE FirstMatch(_, _, _)
\* for (const [_, card] of Object.entries(catalog)) from entry i on
FirstMatch(catalog, cleanNumber, i) ==
  IF i > Len(catalog) THEN "Unknown"
  ELSE IF PatternTest(catalog[i].name, cleanNumber) THEN catalog[i].name
  ELSE FirstMatch(catalog, cleanNumber, i + 1)

identifyCardType(cardNumber) ==
  LET cleanNumber == Normalize(cardNumber)
  IN  IF ~IsDigitString(cleanNumber) THEN "Unknown"
      ELSE FirstMatch(CARD_TYPES, cleanNumber, 1)

(***************************************************************************)
(* The card utility: validateCreditCard, isCreditCard, formatCardNumber.   *)
(***************************************************************************)
\* an error message: its text, and the brand a template literal ends with
Message(text, brand) == <<text, brand>>

InvalidCharacters ==
  Message("Contains invalid characters (only digits, spaces, and hyphens allowed)", "")

InvalidLength == Message("Invalid length: must be 13-19 digits", "")

OnlyDigits == Message("Must contain only digits", "")

FailedLuhn == Message("Invalid card number (failed Luhn check)", "")

\* `Invalid length for ${cardType}`
InvalidLengthFor(cardType) == Message("Invalid length for ", cardType)

\* errors.push(message) when the condition holds
PushIf(errors, condition, message) ==
  IF condition THEN Append(errors, message) ELSE errors

\* /^[\d\s-]+$/.test(s)
IsCardText(s) ==
  s # <<>> /\ \A i \in 1..Len(s) : s[i] \in DigitChars \cup SpaceChars \cup {"-"}

\* Object.values(CARD_TYPES).find((c) => c.name === cardType)
TypeConfig(cardType) ==
  LET found == {i \in 1..Len(CARD_TYPES) : CARD_TYPES[i].name = cardType}
  IN  IF found = {} THEN Undefined
      ELSE Obj(CARD_TYPES[CHOOSE i \in found : \A j \in found : i <= j])

\* the checks stopping at the first failure: at most one message
validateCreditCardFirstError(cardNumber) ==
  LET cleanNumber == Normalize(cardNumber)
      cardType == identifyCardType(cardNumber)
      typeConfig == TypeConfig(cardType)
      errors ==
        IF ~IsCardText(cardNumber) THEN <<InvalidCharacters>>
        ELSE IF cleanNumber = <<>> \/ Len(cleanNumber) < 13 \/ Len(cleanNumber) > 19
             THEN <<InvalidLength>>
        ELSE IF ~IsDigitString(cleanNumber) THEN <<OnlyDigits>>
        ELSE IF ~validateLuhn(cardNumber) THEN <<FailedLuhn>>
        ELSE IF /\ cardType # "Unknown"
                /\ typeConfig.t = "object"
                /\ Len(cleanNumber) \notin typeConfig.v.lengths
             THEN <<InvalidLengthFor(cardType)>>
        ELSE <<>>
  IN  [isValid |-> errors = <<>>, cardType |-> cardType, errors |-> errors]

validateCreditCard(cardNumber) ==
  LET errors1 == PushIf(<<>>, ~IsCardText(cardNumber), InvalidCharacters)
      cleanNumber == Normalize(cardNumber)
      errors2 == PushIf(errors1,
                        cleanNumber = <<>> \/ Len(cleanNumber) < 13 \/ Len(cleanNumber) > 19,
                        InvalidLength)
      errors3 == PushIf(errors2, ~IsDigitString(cleanNumber), OnlyDigits)
      luhnValid == validateLuhn(cardNumber)
      errors4 == PushIf(errors3, ~luhnValid, FailedLuhn)
      cardType == identifyCardType(cardNumber)
      typeConfig == TypeConfig(cardType)
      errors5 == PushIf(errors4,
                        /\ cardType # "Unknown"
                        /\ typeConfig.t = "object"
                        /\ Len(cleanNumber) \notin typeConfig.v.lengths,
                        InvalidLengthFor(cardType))
  IN  [isValid |-> errors5 = <<>>, cardType |-> cardType, errors |-> errors5]

\* validations.isCreditCard
isCreditCard(creditCard) == validateCreditCard(creditCard).isValid

\* the first place from which n digits follow one another, 0 when none
FindDigits(s, n) ==
  LET starts == {i \in 1..(Len(s) - n + 1) : AllDigits(SubSeq(s, i, i + n - 1))}
  IN  IF starts = {} THEN 0 ELSE CHOOSE i \in starts : \A j \in starts : i <= j

\* s.replace(/(\d{a})(\d{b})(\d{c})/, "$1 $2 $3"): the first match regrouped
ReplaceGroups(s, a, b, c) ==
  LET i == FindDigits(s, a + b + c)
  IN  IF i = 0 THEN s
      ELSE SubSeq(s, 1, i - 1)
             \o SubSeq(s, i, i + a - 1) \o <<" ">>
             \o SubSeq(s, i + a, i + a + b - 1) \o <<" ">>
             \o SubSeq(s, i + a + b, Len(s))

RECURSIVE ReplaceFoursNoLookahead(_, _)
\* the replacement without its lookahead: every four digits get a space
ReplaceFoursNoLookahead(s, i) ==
  IF i > Len(s) THEN <<>>
  ELSE IF i + 3 <= Len(s) /\ AllDigits(SubSeq(s, i, i + 3))
       THEN SubSeq(s, i, i + 3) \o <<" ">> \o ReplaceFoursNoLookahead(s, i + 4)
       ELSE <<s[i]>> \o ReplaceFoursNoLookahead(s, i + 1)

RECURSIVE ReplaceFours(_, _)
\* s.replace(/(\d{4})(?=\d)/g, "$1 ") from place i on: four digits with a
\* digit after them get a space, the search going on after the four
ReplaceFours(s, i) ==
  IF i > Len(s) THEN <<>>
  ELSE IF i + 4 <= Len(s) /\ AllDigits(SubSeq(s, i, i + 4))
       THEN SubSeq(s, i, i + 3) \o <<" ">> \o ReplaceFours(s, i + 4)
       ELSE <<s[i]>> \o ReplaceFours(s, i + 1)

\* the formatting with one grouping for every brand
formatCardNumberFours(cardNumber) ==
  ReplaceFours(RemoveChars(cardNumber, NonDigitChars), 1)

formatCardNumber(cardNumber) ==
  LET cleanNumber == RemoveChars(cardNumber, NonDigitChars)
      cardType == identifyCardType(cleanNumber)
  IN  IF cardType = "American Express" THEN ReplaceGroups(cleanNumber, 4, 6, 5)
      ELSE IF cardType = "Diners Club" THEN ReplaceGroups(cleanNumber, 4, 6, 4)
      ELSE ReplaceFours(cleanNumber, 1)

(***************************************************************************)
(* The card numbers drawn for the card functions.                          *)
(***************************************************************************)
\* one number of 19 digits for each prefix family of the catalog, and one
\* of no brand
BrandBases ==
  { <<"4", "1", "1", "1", "1", "1", "1", "1", "1", "1",
      "1", "1", "1", "1", "1", "1", "1", "1", "1">>,
    <<"6", "5", "0", "0", "0", "2", "0", "0", "0", "0",
      "0", "0", "0", "0", "0", "0", "0", "0", "9">>,
    <<"5", "0", "6", "1", "0", "0", "0", "0", "0", "0",
      "0", "0", "0", "0", "0", "0", "0", "0", "0">>,
    <<"5", "5", "5", "5", "5", "5", "5", "5", "5", "5",
      "5", "5", "4", "4", "4", "4", "0", "0", "0">>,
    <<"3", "7", "8", "2", "8", "2", "2", "4", "6", "3",
      "1", "0", "0", "0", "5", "0", "0", "0", "0">>,
    <<"6", "0", "1", "1", "1", "1", "1", "1", "1", "1",
      "1", "1", "1", "1", "1", "7", "0", "0", "0">>,
    <<"3", "0", "5", "6", "9", "3", "0", "9", "0", "2",
      "5", "9", "0", "4", "0", "0", "0", "0", "0">>,
    <<"3", "5", "3", "0", "1", "1", "1", "3", "3", "3",
      "3", "0", "0", "0", "0", "0", "0", "0", "0">>,
    <<"2", "1", "3", "1", "0", "0", "0", "0", "0", "0",
      "0", "0", "0", "0", "0", "0", "0", "0", "0">>,
    <<"1", "2", "3", "4", "5", "6", "7", "8", "9", "0",
      "1", "2", "3", "4", "5", "6", "7", "8", "9">> }

\* the documented sample of each brand
SampleCards ==
  << [name |-> "Visa",
      number |-> <<"4", "1", "1", "1", "1", "1", "1", "1", "1", "1",
          "1", "1", "1", "1", "1", "1">>],
     [name |-> "Mastercard",
      number |-> <<"5", "5", "5", "5", "5", "5", "5", "5", "5", "5",
          "5", "5", "4", "4", "4", "4">>],
     [name |-> "American Express",
      number |-> <<"3", "7", "8", "2", "8", "2", "2", "4", "6", "3",
          "1", "0", "0", "0", "5">>],
     [name |-> "Discover",
      number |-> <<"6", "0", "1", "1", "1", "1", "1", "1", "1", "1",
          "1", "1", "1", "1", "1", "7">>],
     [name |-> "JCB",
      number |-> <<"3", "5", "3", "0", "1", "1", "1", "3", "3", "3",
          "3", "0", "0", "0", "0", "0">>],
     [name |-> "Diners Club",
      number |-> <<"3", "0", "5", "6", "9", "3", "0", "9", "0", "2",
          "5", "9", "0", "4">>],
     [name |-> "Verve",
      number |-> <<"6", "5", "0", "0", "0", "2", "0", "0", "0", "0",
          "0", "0", "0", "0", "0", "0", "0", "0", "9">>] >>

\* the documented samples written with spaces and hyphens
FormattedSamples ==
  { <<"4", "1", "1", "1", " ", "1", "1", "1", "1", " ",
      "1", "1", "1", "1", " ", "1", "1", "1", "1">>,
    <<"4", "1", "1", "1", "-", "1", "1", "1", "1", "-",
      "1", "1", "1", "1", "-", "1", "1", "1", "1">>,
    <<" ", " ", " ", "4", "1", "1", "1", "1", "1", "1",
      "1", "1", "1", "1", "1", "1", "1", "1", "1", " ",
      " ", " ">> }

\* the number of the formatting test
FormatSample ==
  <<"4", "5", "3", "2", "0", "1", "5", "1", "1", "2",
    "8", "3", "0", "3", "6", "6">>

\* the digits ending a number begun with p: the one that makes the Luhn
\* check pass, and 0
LastDigits(p) == {c \in DigitChars : validateLuhn(Append(p, c))} \cup {"0"}

\* the digit strings: 11 to 19 digits of a base and one digit more, the
\* samples, the formatting test's number, the empty string and a short one
DigitStrings ==
  UNION { { Append(SubSeq(b, 1, n), c) : c \in LastDigits(SubSeq(b, 1, n)) } :
            b \in BrandBases, n \in 11..19 }
    \cup { SampleCards[i].number : i \in 1..Len(SampleCards) }
    \cup {FormatSample, <<>>, <<"1", "2", "3">>}

\* the characters written into a digit string
NoiseChars == {" ", "-", "\t", "a"}

\* s with ch written before its character at p + 1
InsertAt(s, p, ch) == SubSeq(s, 1, p) \o <<ch>> \o SubSeq(s, p + 1, Len(s))

\* the places written to: the start, after the fourth character, the end
NoisePositions(s) == {0, IF Len(s) < 4 THEN Len(s) ELSE 4, Len(s)}

RECURSIVE Noised(_, _)
\* the strings of S with up to n characters written into them
Noised(S, n) ==
  IF n = 0 THEN S
  ELSE Noised(S \cup UNION { { InsertAt(s, p, ch) : p \in NoisePositions(s), ch \in NoiseChars } :
                               s \in S }, n - 1)

CardNumbers == Noised(DigitStrings, MaxNoise) \cup FormattedSamples

(***************************************************************************)
(* One static call of a card function on the number drawn.                 *)
(***************************************************************************)
InitCard ==
  /\ input = <<>>
  /\ value = <<>>
  /\ calls = <<>>
  /\ ret = Undefined
  /\ card \in CardNumbers
  /\ luhn = Undefined
  /\ frame = Undefined

\* the record of a static call of the function named key
StaticCall(key) == Call(0, "static", key, <<>>, FALSE)

\* validateLuhn(card), as validateCreditCard calls it
CallLuhnCheck ==
  /\ Composers = {}
  /\ calls = <<>>
  /\ calls' = <<StaticCall("validateLuhn")>>
  /\ ret' = Bool(validateLuhn(card))
  /\ UNCHANGED <<input, value, card, luhn, frame>>

CallIdentifyCardType ==
  /\ Composers = {}
  /\ calls = <<>>
  /\ calls' = <<StaticCall("identifyCardType")>>
  /\ ret' = Str(identifyCardType(card))
  /\ UNCHANGED <<input, value, card, luhn, frame>>

CallValidateCreditCard ==
  /\ Composers = {}
  /\ calls = <<>>
  /\ calls' = <<StaticCall("validateCreditCard")>>
  /\ ret' = Obj(validateCreditCard(card))
  /\ UNCHANGED <<input, value, card, luhn, frame>>

CallIsCreditCard ==
  /\ Composers = {}
  /\ calls = <<>>
  /\ calls' = <<StaticCall("isCreditCard")>>
  /\ ret' = Bool(isCreditCard(card))
  /\ UNCHANGED <<input, value, card, luhn, frame>>

CallFormatCardNumber ==
  /\ Composers = {}
  /\ calls = <<>>
  /\ calls' = <<StaticCall("formatCardNumber")>>
  /\ ret' = Str(formatCardNumber(card))
  /\ UNCHANGED <<input, value, card, luhn, frame>>

NextCard ==
  \/ CallLuhnCheck
  \/ CallIdentifyCardType
  \/ CallValidateCreditCard
  \/ CallIsCreditCard
  \/ CallFormatCardNumber

SpecCard == InitCard /\ [][NextCard]_vars

CallIsJson ==
  /\ Composers = {}
  /\ calls = <<>>
  /\ calls' = <<StaticCall("isJson")>>
  /\ ret' = isJson(Str(card))
  /\ UNCHANGED <<input, value, card, luhn, frame>>

CallIsBase64 ==
  /\ Composers = {}
  /\ calls = <<>>
  /\ calls' = <<StaticCall("isBase64")>>
  /\ ret' = isBase64(Str(card))
  /\ UNCHANGED <<input, value, card, luhn, frame>>

\* one static call of a validation on the text drawn
NextValidate ==
  \/ CallValidateCreditCard
  \/ CallIsCreditCard
  \/ CallIsJson
  \/ CallIsBase64

SpecValidate == InitCard /\ [][NextValidate]_vars

\* the function called on the number, "" before the call
Called == IF calls = <<>> THEN "" ELSE calls[1].key

(***************************************************************************)
(* The card functions' properties.                                         *)
(***************************************************************************)
\* the brands in the order the identification tries them
BrandOrder ==
  <<"Visa", "Verve", "Mastercard", "American Express", "Discover",
    "Diners Club", "JCB">>

\* the first brand of the order whose pattern matches n, "Unknown" when n
\* is not purely digits or no pattern matches
FirstBrandOf(n) ==
  LET matching == {i \in 1..Len(BrandOrder) : PatternTest(BrandOrder[i], n)}
  IN  IF ~IsDigitString(n) \/ matching = {} THEN "Unknown"
      ELSE BrandOrder[CHOOSE i \in matching : \A j \in matching : i <= j]

\* C11: identifyCardType returns "Unknown" when the input without its spaces
\* and hyphens is not purely digits, and otherwise the first brand in the
\* order Visa, Verve, Mastercard, American Express, Discover, Diners Club,
\* JCB whose pattern matches, "Unknown" when none does
IdentifiesFirstBrand ==
  Called = "identifyCardType" => ret = Str(FirstBrandOf(SpaceHyphenStripped(card)))

\* C12: each documented sample number (Visa, Mastercard, American Express,
\* Discover, JCB, Diners Club, Verve) passes the Luhn check, is identified
\* as its brand, and is accepted by isCreditCard
SamplesAccepted ==
  \A i \in 1..Len(SampleCards) :
    card = SampleCards[i].number =>
      /\ Called = "validateLuhn" => ret = Bool(TRUE)
      /\ Called = "identifyCardType" => ret = Str(SampleCards[i].name)
      /\ Called = "isCreditCard" => ret = Bool(TRUE)

\* the Verve sample of 19 digits has been accepted by isCreditCard
SamplesAcceptedWitness ==
  /\ card = SampleCards[7].number
  /\ SampleCards[7].name = "Verve"
  /\ Len(card) = 19
  /\ Called = "isCreditCard"
  /\ ret = Bool(TRUE)

\* the result object of the validateCreditCard call
Result == ret.v

\* the brand of the number's length policy, through its name in the catalog
LengthsOf(brand) ==
  UNION { CARD_TYPES[i].lengths : i \in {j \in 1..Len(CARD_TYPES) : CARD_TYPES[j].name = brand} }

\* the five checks in their order, each with its message and whether it
\* fails on the number s
Checks(s) ==
  LET clean == Normalize(s)
      brand == identifyCardType(s)
  IN  << [message |-> InvalidCharacters, failed |-> ~IsCardText(s)],
         [message |-> InvalidLength, failed |-> Len(clean) < 13 \/ Len(clean) > 19],
         [message |-> OnlyDigits, failed |-> ~IsDigitString(clean)],
         [message |-> FailedLuhn, failed |-> ~validateLuhn(s)],
         [message |-> InvalidLengthFor(brand),
          failed |-> brand # "Unknown" /\ Len(clean) \notin LengthsOf(brand)] >>

RECURSIVE FailedMessages(_, _)
\* the messages of the failed checks among the first n, in their order
FailedMessages(checks, n) ==
  IF n = 0 THEN <<>>
  ELSE IF checks[n].failed
       THEN Append(FailedMessages(checks, n - 1), checks[n].message)
       ELSE FailedMessages(checks, n - 1)

\* C13: validateCreditCard runs every check, none cutting the others short:
\* errors holds exactly the messages of the failed checks in the fixed order
\* (invalid characters, invalid length, only digits, Luhn, length for the
\* brand), isValid is true exactly when errors is empty, and cardType is
\* identifyCardType of the input
ErrorsAreFailedChecks ==
  Called = "validateCreditCard" =>
    /\ Result.errors = FailedMessages(Checks(card), 5)
    /\ Result.isValid = (Result.errors = <<>>)
    /\ Result.cardType = identifyCardType(card)

\* a number has failed the Luhn check and its brand's length policy at
\* once, both messages reported in that order
ErrorsAreFailedChecksWitness ==
  /\ Called = "validateCreditCard"
  /\ Result.cardType # "Unknown"
  /\ Result.errors = <<FailedLuhn, InvalidLengthFor(Result.cardType)>>
  /\ ~Result.isValid

\* the messages of the result
Errors == {Result.errors[i] : i \in 1..Len(Result.errors)}

\* C14: the message "Contains invalid characters (only digits, spaces, and
\* hyphens allowed)" is in errors exactly when the raw input holds at least
\* one character that is not a digit, a space or a hyphen
InvalidCharactersReported ==
  Called = "validateCreditCard" =>
    (InvalidCharacters \in Errors
       <=> \E i \in 1..Len(card) : card[i] \notin DigitChars \cup {" ", "-"})

\* C15: the normalization of the Luhn check, of identifyCardType and of
\* validateCreditCard removes the space and hyphen characters only: every
\* other character (letter, tab, newline, punctuation) stays, in its order
NormalizationKeepsOthers ==
  Called \in {"validateLuhn", "identifyCardType", "validateCreditCard"} =>
    Normalize(card) = SpaceHyphenStripped(card)

\* C16: a number written with spaces and hyphens anywhere, leading and
\* trailing ones too, is validated as its digits alone are: the same isValid,
\* cardType and errors; the sample written in groups with spaces, with
\* hyphens, and between leading and trailing spaces is valid
NoiseIsIgnored ==
  (Called = "validateCreditCard" /\ \A i \in 1..Len(card) : card[i] \in DigitChars \cup {" ", "-"})
    => /\ Result = validateCreditCard(SpaceHyphenStripped(card))
       /\ card \in FormattedSamples => Result.isValid

\* C17: for every input holding a letter validateCreditCard returns isValid
\* false and cardType "Unknown", errors holds "Must contain only digits" and
\* no "Invalid length for {brand}" message
LettersRejected ==
  (Called = "validateCreditCard" /\ \E i \in 1..Len(card) : card[i] \in LowerChars \cup UpperChars)
    => /\ ~Result.isValid
       /\ Result.cardType = "Unknown"
       /\ OnlyDigits \in Errors
       /\ \A i \in 1..Len(BrandOrder) : InvalidLengthFor(BrandOrder[i]) \notin Errors

\* a letter has been written into a Verve number of 17 digits, a length its
\* brand does not allow: no message names the brand
LettersRejectedWitness ==
  LET digits == SelectSeq(card, LAMBDA ch : ch \in DigitChars)
  IN  /\ Called = "validateCreditCard"
      /\ \E i \in 1..Len(card) : card[i] = "a"
      /\ identifyCardType(digits) = "Verve"
      /\ Len(digits) = 17
      /\ Result.errors = <<InvalidCharacters, OnlyDigits, FailedLuhn>>

\* C18: when the input without its spaces and hyphens is empty or shorter
\* than 13 or longer than 19, validateCreditCard returns isValid false and
\* errors holds "Invalid length: must be 13-19 digits"; when its length is
\* within 13 to 19, the message is absent
LengthReported ==
  LET n == SpaceHyphenStripped(card)
  IN  Called = "validateCreditCard" =>
        /\ (n = <<>> \/ Len(n) < 13 \/ Len(n) > 19)
             => (~Result.isValid /\ InvalidLength \in Errors)
        /\ (Len(n) >= 13 /\ Len(n) <= 19) => InvalidLength \notin Errors

\* the digits of the input, in their order
DigitsOf(s) == SelectSeq(s, LAMBDA ch : ch \in DigitChars)

\* the digits d written in groups of the given sizes, one space between them
Grouped(d, a, b) ==
  SubSeq(d, 1, a) \o <<" ">> \o SubSeq(d, a + 1, a + b) \o <<" ">> \o SubSeq(d, a + b + 1, Len(d))

\* C19: formatCardNumber returns the 15 digits of an input identified as
\* American Express in groups of 4, 6 and 5, and the 14 digits of an input
\* identified as Diners Club in groups of 4, 6 and 4, single spaces between
BrandGrouping ==
  LET d == DigitsOf(card)
      brand == identifyCardType(d)
  IN  Called = "formatCardNumber" =>
        /\ brand = "American Express"
             => (Len(d) = 15 /\ ret = Str(Grouped(d, 4, 6)) /\ Len(ret.v) = 17)
        /\ brand = "Diners Club"
             => (Len(d) = 14 /\ ret = Str(Grouped(d, 4, 6)) /\ Len(ret.v) = 16)

\* an American Express number written with a hyphen or a letter in it has
\* been formatted
BrandGroupingWitness ==
  /\ Called = "formatCardNumber"
  /\ identifyCardType(DigitsOf(card)) = "American Express"
  /\ Len(card) > 15
  /\ ret.v[5] = " " /\ ret.v[12] = " "
  /\ Len(ret.v) = 17

\* C20: on an input of any other brand or of none formatCardNumber removes
\* every character that is no digit and returns the digits in runs of 4 with
\* single spaces between, the last run of 1 to 4 digits, and no space at
\* either end; "4532015112830366" gives "4532 0151 1283 0366"
RunsOfFour ==
  LET d == DigitsOf(card)
      r == ret.v
  IN  (Called = "formatCardNumber"
         /\ identifyCardType(d) \notin {"American Express", "Diners Club"})
        => /\ SelectSeq(r, LAMBDA ch : ch # " ") = d
           /\ \A i \in 1..Len(r) : (r[i] = " ") <=> (i % 5 = 0)
           /\ r # <<>> => r[Len(r)] # " "
           /\ card = FormatSample
                => r = <<"4", "5", "3", "2", " ", "0", "1", "5", "1", " ",
                         "1", "2", "8", "3", " ", "0", "3", "6", "6">>

\* a number of no brand, of 20 digits and a letter, has been formatted in
\* five full runs
RunsOfFourWitness ==
  /\ Called = "formatCardNumber"
  /\ identifyCardType(DigitsOf(card)) = "Unknown"
  /\ Len(DigitsOf(card)) = 20
  /\ \E i \in 1..Len(card) : card[i] = "a"
  /\ Len(ret.v) = 24

(***************************************************************************)
(* Static calls of the text transformations on one text drawn: a           *)
(* transformation is applied to the text, and collapseSpaces, onlyNumbers  *)
(* and toSlug once more to their own result.                               *)
(***************************************************************************)
TextChars == {"a", "B", "1", " ", "\t", "-", "U+00E9"}

Texts == StringsUpTo(TextChars, MaxText)

InitText ==
  /\ input \in [{1} -> {Str(s) : s \in Texts}]
  /\ value = <<>>
  /\ calls = <<>>
  /\ ret = Undefined
  /\ card = <<>>
  /\ luhn = Undefined
  /\ frame = Undefined

\* the argument of the call: the text, or the result of the call before
Argument == IF calls = <<>> THEN input[1] ELSE ret

\* a first call, or a second call of the function called first
MayCall(key) == calls = <<>> \/ (Len(calls) = 1 /\ calls[1].key = key)

CallCollapseSpaces ==
  /\ Composers = {}
  /\ MayCall("collapseSpaces")
  /\ calls' = Append(calls, StaticCall("collapseSpaces"))
  /\ ret' = collapseSpaces(Argument)
  /\ UNCHANGED <<input, value, card, luhn, frame>>

CallOnlyNumbers ==
  /\ Composers = {}
  /\ MayCall("onlyNumbers")
  /\ calls' = Append(calls, StaticCall("onlyNumbers"))
  /\ ret' = onlyNumbers(Argument)
  /\ UNCHANGED <<input, value, card, luhn, frame>>

CallToSlug ==
  /\ Composers = {}
  /\ MayCall("toSlug")
  /\ calls' = Append(calls, StaticCall("toSlug"))
  /\ ret' = toSlug(Argument)
  /\ UNCHANGED <<input, value, card, luhn, frame>>

CallToCamelCase ==
  /\ Composers = {}
  /\ calls = <<>>
  /\ calls' = <<StaticCall("toCamelCase")>>
  /\ ret' = toCamelCase(input[1])
  /\ UNCHANGED <<input, value, card, luhn, frame>>

CallToPascalCase ==
  /\ Composers = {}
  /\ calls = <<>>
  /\ calls' = <<StaticCall("toPascalCase")>>
  /\ ret' = toPascalCase(input[1])
  /\ UNCHANGED <<input, value, card, luhn, frame>>

NextText ==
  \/ CallCollapseSpaces
  \/ CallOnlyNumbers
  \/ CallToSlug
  \/ CallToCamelCase
  \/ CallToPascalCase

SpecText == InitText /\ [][NextText]_vars

(***************************************************************************)
(* The text transformations' properties.                                   *)
(***************************************************************************)
\* the function of the last static call, "" before any
LastKey == IF calls = <<>> THEN "" ELSE calls[Len(calls)].key

\* C21: collapseSpaces and onlyNumbers are idempotent: applied to their own
\* result they return it unchanged
SecondCallChangesNothing ==
  [][(Len(calls) = 1 /\ Len(calls') = 2
        /\ calls'[2].key \in {"collapseSpaces", "onlyNumbers"})
       => ret' = ret]_vars

\* collapseSpaces has been applied twice to a text with several spaces in a
\* row, which the first call changed
SecondCallChangesNothingWitness ==
  /\ Len(calls) = 2
  /\ LastKey = "collapseSpaces"
  /\ ret # input[1]
  /\ \E i \in 1..(Len(input[1].v) - 2) :
       /\ input[1].v[i] \in SpaceChars
       /\ input[1].v[i + 1] \in SpaceChars
       /\ input[1].v[i + 2] \in SpaceChars

\* C22: toPascalCase(s) is toCamelCase(s) with its first character in upper
\* case and every other character the same; it is empty when
\* toCamelCase(s) is
PascalIsCamelCapitalized ==
  LET camel == toCamelCase(input[1]).v
      pascal == ret.v
  IN  LastKey = "toPascalCase" =>
        /\ Len(pascal) = Len(camel)
        /\ camel # <<>> => pascal[1] = UpperOf(camel[1])
        /\ \A i \in 2..Len(camel) : pascal[i] = camel[i]

\* a text of two words has been converted: its camel-case form starts with
\* a lower-case letter, its Pascal-case form with the upper-case one
PascalIsCamelCapitalizedWitness ==
  /\ LastKey = "toPascalCase"
  /\ Len(ret.v) >= 2
  /\ toCamelCase(input[1]).v[1] = "a"
  /\ ret.v[1] = "A"
  /\ ret.v[2] \in UpperChars

(***************************************************************************)
(* The validations' properties.                                            *)
(***************************************************************************)
\* C23: a validation failure is a value, never an exception: for every text
\* validateCreditCard returns a result object and isCreditCard, isJson and
\* isBase64 return a boolean; a JSON.parse or an atob that throws inside the
\* predicate is caught and gives false
FailureIsAValue ==
  /\ Called = "validateCreditCard"
       => (ret.t = "object" /\ DOMAIN ret.v = {"isValid", "cardType", "errors"})
  /\ Called \in {"isCreditCard", "isJson", "isBase64"} => ret.t = "boolean"
  /\ (Called = "isJson" /\ IsThrow(JsonParse(card))) => ret = Bool(FALSE)
  /\ (Called = "isBase64" /\ IsThrow(Atob(card))) => ret = Bool(FALSE)

\* isJson has been called on digits with a letter among them, which
\* JSON.parse rejects with a SyntaxError
FailureIsAValueWitness ==
  /\ Called = "isJson"
  /\ Len(card) > 12
  /\ \E i \in 1..Len(card) : card[i] = "a"
  /\ JsonParse(card) = Throw("SyntaxError")
  /\ ret = Bool(FALSE)

(***************************************************************************)
(* The registries' property.                                               *)
(***************************************************************************)
Families ==
  [transformation |-> Range(TransformationNames),
   validation |-> Range(ValidationNames),
   advanced |-> Range(AdvancedNames),
   function |-> Range(CardFunctionNames)]

\* C24: the names of the transformation, validation, advanced and card
\* function families are pairwise disjoint and none is "result": on the
\* static surface every name belongs to its own family's entry, no chain
\* method is overwritten by another, and a method called on a chain is of
\* the kind of its registry
NamesAreDisjoint ==
  /\ \A f, g \in DOMAIN Families : f # g => Families[f] \cap Families[g] = {}
  /\ \A f \in DOMAIN Families : "result" \notin Families[f]
  /\ \A f \in DOMAIN Families : \A n \in Families[f] : StaticSurface[n] = f
  /\ \A n \in Families.transformation : ChainMethods[n] = "transformation"
  /\ \A n \in Families.validation : ChainMethods[n] = "validation"
  /\ ChainMethods["result"] = "result"
  /\ \A i \in 1..Len(calls) : ChainMethods[calls[i].key] = calls[i].kind

\* a chain has been called under a transformation's name and then under a
\* validation's
NamesAreDisjointWitness ==
  /\ Len(calls) = 2
  /\ calls[1].kind = "transformation"
  /\ calls[1].key \in Range(TransformationNames)
  /\ calls[2].kind = "validation"
  /\ calls[2].key \in Range(ValidationNames)

(***************************************************************************)
(* replaceLast step by step, and redact: the text is drawn, the pattern    *)
(* and the replacement are chosen by the call. frame is the call of        *)
(* replaceLast in progress: its position, r with its lastIndex, m and the  *)
(* local lastIndex.                                                        *)
(***************************************************************************)
ReplaceChars == {"a", "b", " "}

ReplaceTexts == StringsUpTo(ReplaceChars, MaxLen)

ReplacePatterns ==
  {StrArg(<<"a">>), ReArg(<<"a">>, "g"), ReArg(<<"a">>, ""),
   ReArg(<<"a", "+">>, "g"), ReArg(<<"a", "+">>, ""),
   ReArg(WordBoundary \o <<"a">> \o WordBoundary, "g"),
   ReArg(WordBoundary \o <<"a">> \o WordBoundary, "")}

Replacements == {<<"x">>, <<>>}

Labels == {Undefined, Str(<<"x">>)}

InitReplace ==
  /\ input \in [{1} -> {Str(s) : s \in ReplaceTexts}]
  /\ value = <<>>
  /\ calls = <<>>
  /\ ret = Undefined
  /\ card = <<>>
  /\ luhn = Undefined
  /\ frame = Undefined

Pc == IF frame = Undefined THEN "idle" ELSE frame.pc

\* replaceLast(input, pattern, replacement) is entered: r is made and
\* lastIndex is -1
CallReplaceLast ==
  /\ calls = <<>>
  /\ \E pattern \in ReplacePatterns, replacement \in Replacements :
       LET r == toRegExp(pattern, IF pattern.re THEN pattern.flags ELSE "g")
       IN  /\ ~IsThrow(r)
           /\ frame' = [pc |-> "test", r |-> r, rLastIndex |-> 0, m |-> NoMatch,
                        lastIndex |-> -1, pattern |-> pattern,
                        replacement |-> replacement]
  /\ calls' = <<StaticCall("replaceLast")>>
  /\ UNCHANGED <<input, value, ret, card, luhn>>

\* the loop's condition: m = r.exec(str)
ExecStep ==
  /\ Pc = "test"
  /\ LET e == RegExpExecAt(frame.r, input[1].v, frame.rLastIndex)
     IN  frame' = [frame EXCEPT !.m = e.m, !.rLastIndex = e.lastIndex,
                                !.pc = IF e.m.found THEN "body" ELSE "return"]
  /\ UNCHANGED <<input, value, calls, ret, card, luhn>>

\* the loop's body: lastIndex = m.index
BodyStep ==
  /\ Pc = "body"
  /\ frame' = [frame EXCEPT !.lastIndex = frame.m.index - 1, !.pc = "test"]
  /\ UNCHANGED <<input, value, calls, ret, card, luhn>>

\* the return after the loop
ReturnStep ==
  /\ Pc = "return"
  /\ ret' = IF frame.lastIndex = -1 THEN input[1]
            ELSE Str(ReplaceFromIndex(input[1].v, frame.r, frame.replacement,
                                      frame.lastIndex))
  /\ frame' = [frame EXCEPT !.pc = "done"]
  /\ UNCHANGED <<input, value, calls, card, luhn>>

\* redact(input, pattern, label), the label given or left out
CallRedact ==
  /\ calls = <<>>
  /\ \E pattern \in ReplacePatterns, label \in Labels :
       /\ ret' = redact(input[1], pattern, label)
       /\ frame' = [pc |-> "done", pattern |-> pattern, label |-> label]
  /\ calls' = <<StaticCall("redact")>>
  /\ UNCHANGED <<input, value, card, luhn>>

NextReplace == CallReplaceLast \/ ExecStep \/ BodyStep \/ ReturnStep \/ CallRedact

\* a call that has been entered runs on: nothing else is scheduled
SpecReplace == InitReplace /\ [][NextReplace]_vars /\ WF_vars(NextReplace)

(***************************************************************************)
(* The properties of replaceLast and redact.                               *)
(***************************************************************************)
\* every match of the pattern in s, left to right
AllMatches(pattern, s) == MatchesFrom(Compile(pattern.src), s, 1)

\* s with only its last match replaced
LastReplaced(pattern, s, rep) ==
  LET ms == AllMatches(pattern, s)
  IN  IF ms = <<>> THEN s ELSE ReplaceMatches(s, <<ms[Len(ms)]>>, rep, 1)

\* s with every match replaced
EveryReplaced(pattern, s, rep) == ReplaceMatches(s, AllMatches(pattern, s), rep, 1)

ReplaceLastResult ==
  (Called = "replaceLast" /\ Pc = "done")
    => ret = Str(LastReplaced(frame.pattern, input[1].v, frame.replacement))

\* C25: every call of replaceLast returns, whatever the text and whether
\* the pattern is a string or a RegExp with or without the global flag, and
\* what it returns is the text with only its last match replaced (the text
\* itself when nothing matches)
ReplaceLastReturns ==
  /\ []ReplaceLastResult
  /\ (Pc = "test") ~> (Pc = "done")

\* C26: redact returns the text with every match of the pattern replaced by
\* the label ("[REDACTED]" when none is given), for a string and for a
\* RegExp with any flags; the text itself when nothing matches
RedactReplacesEvery ==
  Called = "redact"
    => ret = Str(EveryReplaced(frame.pattern, input[1].v,
                               IF frame.label = Undefined THEN RedactedLabel
                               ELSE frame.label.v))

(***************************************************************************)
(* The verdict of validateCreditCard, the brands' lengths and the Luhn     *)
(* check's single-digit errors.                                            *)
(***************************************************************************)
\* what the call says of the number's validity
Verdict == IF Called = "isCreditCard" THEN ret.v ELSE Result.isValid

\* C27: validateCreditCard(x).isValid, and isCreditCard(x), is true exactly
\* when validateLuhn(x) is true and the brand is "Unknown" or lists the
\* length of x without its spaces and hyphens; a Luhn-valid number of 13 to
\* 19 digits of no brand is valid with cardType "Unknown"
ValidIffLuhnAndLength ==
  LET n == SpaceHyphenStripped(card)
      brand == identifyCardType(card)
  IN  /\ Called \in {"validateCreditCard", "isCreditCard"}
           => (Verdict <=> (/\ validateLuhn(card)
                            /\ (brand = "Unknown" \/ Len(n) \in LengthsOf(brand))))
      /\ (Called = "validateCreditCard" /\ validateLuhn(card) /\ brand = "Unknown")
           => (Result.isValid /\ Result.cardType = "Unknown")

FixedLengthBrands ==
  {"Visa", "Mastercard", "American Express", "Discover", "Diners Club"}

\* C28: a number identified as Visa, Mastercard, American Express, Discover
\* or Diners Club has a length its brand lists, so validateCreditCard never
\* appends "Invalid length for {brand}" for these; the message is in errors
\* only for a number identified as Verve with 17 digits or as JCB with 15
BrandLengthMessage ==
  LET brand == Result.cardType
      n == Len(DigitsOf(card))
  IN  Called = "validateCreditCard" =>
        /\ brand \in FixedLengthBrands
             => (n \in LengthsOf(brand) /\ InvalidLengthFor(brand) \notin Errors)
        /\ \A i \in 1..Len(CARD_TYPES) :
             InvalidLengthFor(CARD_TYPES[i].name) \in Errors
               <=> /\ brand = CARD_TYPES[i].name
                   /\ \/ brand = "Verve" /\ n = 17
                      \/ brand = "JCB" /\ n = 15

\* a well-formed number of 15 digits is identified as JCB and refused for
\* its length alone or with the Luhn check
BrandLengthMessageWitness ==
  /\ Called = "validateCreditCard"
  /\ Result.cardType = "JCB"
  /\ Len(card) = 15
  /\ InvalidLengthFor("JCB") \in Errors
  /\ InvalidLength \notin Errors

\* d with the digit at position p replaced by c
WithDigit(d, p, c) == [d EXCEPT ![p] = c]

\* C29: the Luhn check detects every single-digit error: when validateLuhn
\* is true of a string of 13 to 19 digits, it is false of every string that
\* differs from it in one digit
SingleDigitErrorDetected ==
  (Called = "validateLuhn" /\ IsDigitString(card) /\ ret = Bool(TRUE))
    => \A p \in 1..Len(card) : \A c \in DigitChars \ {card[p]} :
         ~validateLuhn(WithDigit(card, p, c))

\* a Luhn-valid number of 19 digits has been checked, a 9 among its digits
\* counted double
SingleDigitErrorDetectedWitness ==
  /\ Called = "validateLuhn"
  /\ IsDigitString(card)
  /\ Len(card) = 19
  /\ ret = Bool(TRUE)
  /\ \E p \in 1..Len(card) : (Len(card) - p) % 2 = 1 /\ card[p] = "9"

(***************************************************************************)
(* The slug's property.                                                    *)
(***************************************************************************)
IsAscii(s) == \A i \in 1..Len(s) : s[i] \notin AccentChars

\* C30: for an ASCII text s, toSlug(s) is empty or a slug as isSlug accepts
\* them (lowercase letters, digits and single hyphens, none leading or
\* trailing), and toSlug is idempotent: toSlug(toSlug(s)) = toSlug(s)
SlugIsSlug ==
  (LastKey = "toSlug" /\ calls[1].key = "toSlug" /\ IsAscii(input[1].v))
    => /\ ret.t = "string"
       /\ ret.v = <<>> \/ isSlug(ret) = Bool(TRUE)
       /\ \A i \in 1..Len(ret.v) : ret.v[i] \in LowerChars \cup DigitChars \cup {"-"}
       /\ ret = toSlug(input[1])
       /\ toSlug(ret) = ret

\* toSlug has been called on the slug of a text that began with a separator
\* and held an upper-case letter and a separator inside
SlugIsSlugWitness ==
  /\ Len(calls) = 2
  /\ calls[1].key = "toSlug"
  /\ calls[2].key = "toSlug"
  /\ IsAscii(input[1].v)
  /\ input[1].v # <<>>
  /\ input[1].v[1] \in {" ", "-", "\t"}
  /\ \E i \in 1..Len(input[1].v) : input[1].v[i] \in UpperChars
  /\ \E i \in 1..Len(ret.v) : ret.v[i] = "-"

====
